---- MODULE Spec2Model ----
(***************************************************************************)
(* NotebookEditor (orangecontrib/prototypes/widgets/notebook.py): the      *)
(* execute-request/reply correlation table, the per-cell output view and   *)
(* the handlers of the kernel's messages.                                  *)
(*                                                                         *)
(* Python's None is modelled by 0: request ids are 1, 2, ... (the kernel   *)
(* client returns a fresh id for every execute call) and execution counts  *)
(* are 1, 2, ...  A text is a sequence of tokens (characters or character  *)
(* groups), so that joining, escaping and stripping are computed.  A dict  *)
(* is the sequence of its <<key, value>> items in insertion order.         *)
(*                                                                         *)
(* The module also holds three components of widgets/utils/textimport.py,  *)
(* each with a specification of its own: CachedBytesIOWrapper (SpecCache), *)
(* TablePreviewModel (SpecPreview) and the column types of CSVImportWidget *)
(* (SpecColumns).  A specification leaves the variables of the other       *)
(* components at their initial values.                                     *)
(***************************************************************************)
EXTENDS Integers, Sequences, FiniteSets, TLC

VARIABLES
    notebook,           \* the cell records of the document loaded into the editor, NoNotebook before the load
    kernel_client,      \* NotebookEditor.kernel_client: None or the attached client
    cells,              \* NotebookEditor._cells: the list of _CellData
    layout,             \* NotebookEditor.__layout: the rows of the grid, top to bottom
    execute_msg_ids,    \* NotebookEditor._execute_msg_ids: msg id -> index into cells
    submit,             \* the call of execute_cell in progress: its position, cell and request id
    issued,             \* the kernel client's log: issued[i] is the cell whose execute call returned id i
    ndelivered,         \* number of messages the kernel client has delivered so far
    last,               \* the operation that ran last, with its input
    base,               \* CachedBytesIOWrapper.__base: the content of the stream and the read position
    cache,              \* CachedBytesIOWrapper.__cache: the buffer of the BytesIO and its position
    returned,           \* the bytes the wrappers have returned since the cache was last rewound
    preview,            \* the fields of a TablePreviewModel
    widget              \* CSVImportWidget: the preview model's column count and column types, the timer

vars == <<notebook, kernel_client, cells, layout, execute_msg_ids, submit, issued, ndelivered, last,
          base, cache, returned, preview, widget>>

\* the variables of the notebook editor and those of the text import
nbvars == <<notebook, kernel_client, cells, layout, execute_msg_ids, submit, issued, ndelivered>>
tivars == <<base, cache, returned, preview, widget>>

None == 0
Client == 1

\* ------------------------------------------------------------------ bounds
MaxRequests == 2
MaxDeliveries == 2

\* ------------------------------------------------------------------ texts
ESC == "ESC[31m"
NL == "\n"

Range(s) == {s[i] : i \in 1..Len(s)}

RECURSIVE Join(_, _)
\* sep.join(parts)
Join(sep, parts) ==
    IF parts = <<>> THEN <<>>
    ELSE IF Len(parts) = 1 THEN parts[1]
    ELSE parts[1] \o sep \o Join(sep, Tail(parts))

\* xml.sax.saxutils.escape: & < > become entities
EscapeChar(ch) ==
    CASE ch = "&" -> "&amp;"
      [] ch = "<" -> "&lt;"
      [] ch = ">" -> "&gt;"
      [] OTHER -> ch

escape(text) == [i \in 1..Len(text) |-> EscapeChar(text[i])]

\* utils.kernel_client.remove_ansi_control: the ANSI control sequences are dropped
remove_ansi_control(text) == SelectSeq(text, LAMBDA ch : ch # ESC)

\* ------------------------------------------------------------------ dicts
Keys(d) == {d[i][1] : i \in 1..Len(d)}

\* dict.get(key, default)
DictGet(d, key, default) ==
    IF key \in Keys(d)
    THEN LET i == CHOOSE j \in 1..Len(d) : d[j][1] = key IN d[i][2]
    ELSE default

\* key.startswith("image/")
IsImageKey(key) == key \in {"image/png", "image/svg+xml", "image/jpeg"}

\* {key: value for key, value in data.items() if key.startswith("image/")}
ImageData(data) == SelectSeq(data, LAMBDA kv : IsImageKey(kv[1]))

\* dict.popitem(): the item inserted last
PopItem(d) == d[Len(d)]

\* ------------------------------------------------------------------ the table
\* dict.pop(key, None)
TablePop(t, k) == [x \in (DOMAIN t) \ {k} |-> t[x]]

\* dict[key] = value
TablePut(t, k, v) == [x \in (DOMAIN t) \cup {k} |-> IF x = k THEN v ELSE t[x]]

\* Faulty variant: the cell is found by its own execute_request_msg_id, not in the table.
CellWithRequest(t, k) ==
    IF k # None /\ \E c \in 1..Len(cells) : cells[c].execute_request_msg_id = k
    THEN CHOOSE c \in 1..Len(cells) : cells[c].execute_request_msg_id = k
    ELSE None

\* dict.get(key): None when absent
TableGet(t, k) == IF k \in DOMAIN t THEN t[k] ELSE None

\* ------------------------------------------------------------------ inputs
MimeKeys == {"image/png", "image/svg+xml", "image/jpeg", "text/html", "text/plain"}

\* the value a kernel sends under a mime key
MimeValue(key) ==
    CASE key = "image/png" -> <<"iVBOR">>
      [] key = "image/svg+xml" -> <<"<svg/>">>
      [] key = "image/jpeg" -> <<"/9j/4">>
      [] key = "text/html" -> <<"<b>2</b>">>
      [] OTHER -> <<"2">>

\* the dicts with the given keys in the given order
DictOf(keys) == [i \in 1..Len(keys) |-> <<keys[i], MimeValue(keys[i])>>]

\* content["data"] of a display_data message: the keys in the order the kernel wrote them
DisplayKeyOrders ==
    {<<"text/plain">>, <<"text/html", "text/plain">>,
     <<"image/png", "text/plain">>, <<"text/plain", "image/png">>,
     <<"image/svg+xml">>, <<"image/png", "image/svg+xml">>, <<"image/svg+xml", "image/png">>,
     <<"image/jpeg", "text/plain">>, <<"image/png", "image/jpeg">>,
     <<"image/svg+xml", "text/html">>}

DisplayPayloads == {DictOf(ks) : ks \in DisplayKeyOrders}

\* content["data"] of an execute_result message
ResultPayloads ==
    {DictOf(ks) : ks \in {<<"text/plain">>, <<"text/html">>, <<"text/html", "text/plain">>}}

StreamTexts == {<<>>, <<"a", "<">>}
StreamNames == {"stdout", "stderr"}
Tracebacks == {<<>>, << <<ESC>> >>, << <<ESC, "E", ESC>>, <<"x">> >>}
ExecutionCounts == {None, 1}

\* The source of a cell record as the document stores it: one string
\* (is_list FALSE, value the text) or a list of lines (is_list TRUE, value the
\* sequence of the lines).
Str(text) == [is_list |-> FALSE, value |-> text]
Lines(lines) == [is_list |-> TRUE, value |-> lines]

\* a cell record of a notebook document
CellRecord(cell_type, source, execution_count) ==
    [cell_type |-> cell_type, source |-> source, execution_count |-> execution_count]

\* data["cells"] of the documents loaded
Notebooks ==
    {<<CellRecord("code", Str(<<"1", "+", "1">>), None),
       CellRecord("markdown", Lines(<< <<"#", "t", NL>>, <<"x">> >>), None),
       CellRecord("code", Lines(<< <<"a", NL>>, <<"b">> >>), 1)>>,
     <<CellRecord("code", Lines(<< <<"p", NL>>, <<"q">> >>), 1),
       CellRecord("raw", Lines(<< <<"r", NL>>, <<"s">> >>), None)>>}

NoNotebook == <<"none">>

\* parent_header.msg_id of an inbound message: None when the header has none
ParentIds == 0..MaxRequests

StreamMsgs ==
    [msg_type : {"stream"}, parent_header : ParentIds,
     content : [text : StreamTexts, name : StreamNames, execution_count : {None}]]

ExecuteReplyMsgs ==
    [msg_type : {"execute_reply"}, parent_header : ParentIds,
     content : [status : {"ok"}, traceback : {<<>>}, execution_count : ExecutionCounts]
               \cup [status : {"error"}, traceback : Tracebacks, execution_count : ExecutionCounts]]

ExecuteResultMsgs ==
    [msg_type : {"execute_result"}, parent_header : ParentIds,
     content : [data : ResultPayloads, execution_count : ExecutionCounts]]

DisplayDataMsgs ==
    [msg_type : {"display_data"}, parent_header : ParentIds,
     content : [data : DisplayPayloads]]

\* What ran last: the operation (or the type of the message handled), the cell
\* it ran on (None when the message resolved to none), the message's parent id,
\* whether the call raised, and the content of a message that resolved to a cell.
NoContent == [none |-> None]

Op(op, index, parent, raised, content) ==
    [op |-> op, index |-> index, parent |-> parent, raised |-> raised, content |-> content]

\* ------------------------------------------------------------------ the output view
\* One insertion into a cell's output document.  delivery is the number of the
\* delivery that made it and parent the request it answered (history carried
\* with the insertion; the widget does not read them).
Insertion(type, content, tag) ==
    [type |-> type, content |-> content, parent |-> tag.parent, delivery |-> tag.delivery]

\* cursor.movePosition(End); cursor.insertText(text)
append_plain_text(view, text, tag) == Append(view, Insertion("text", text, tag))

\* Faulty variant: the cursor is left at the start of the document.
insert_html_at_start(view, content, tag) == <<Insertion("html", content, tag)>> \o view

\* cursor.movePosition(End); cursor.insertHtml(content)
append_html_contents(view, content, tag) == Append(view, Insertion("html", content, tag))

\* cursor.movePosition(End); insert_svg_contents(cursor, content)
append_svg_contents(view, content, tag) == Append(view, Insertion("svg", content, tag))

\* the output view of a code cell is a RichOutputView (a QTextBrowser), never a QPlainTextEdit
ViewIsPlainTextEdit == FALSE

\* Faulty variant: a count of None leaves the prompt as it was.
set_execution_count_if_present(cell, count) ==
    IF count # None THEN [cell EXCEPT !.execution_count = count] ELSE cell

\* label.setText(f"In [{count}]"): the count shown, None for the blank prompt
set_execution_count(cell, count) == [cell EXCEPT !.execution_count = count]

\* output.setVisible(True)
setVisible(cell) == [cell EXCEPT !.visible = TRUE]

\* output.clear()
clearoutput(cell) == [cell EXCEPT !.output = <<>>]

\* _CellData as _insert_code_cell fills it in
CellData(execution_count) ==
    [execute_request_msg_id |-> None,
     output |-> <<>>,
     visible |-> FALSE,
     execution_count |-> execution_count,
     output_content |-> <<>>]

\* msg.get("parent_header", {}).get("msg_id")
ParentMsgId(msg) == msg.parent_header

\* ------------------------------------------------------------------ operations
SetKernelClient(client) ==
    /\ kernel_client' = client
    /\ UNCHANGED <<cells, execute_msg_ids>>

\* An object of one of the classes Cell, CodeCell, MarkdownCell, RawCell.
CellObject(class, cell_type, source, execution_count) ==
    [class |-> class, cell_type |-> cell_type, source |-> source,
     execution_count |-> execution_count]

\* isinstance(cell, class) for class one of CodeCell, MarkdownCell, RawCell:
\* each is a direct subclass of Cell and has no subclass of its own.
IsInstance(cell, class) == cell.class = class

\* layout.rowCount()
rowCount(rows) == Len(rows)

\* One row of the grid: the widget in its column 1 (the editor of a code cell,
\* its output view, or the text view of a markdown or raw cell) and its text.
Row(kind, source) == [kind |-> kind, source |-> source]

\* list.insert(index, x), index counted from 0
ListInsert(s, index, x) ==
    IF index >= Len(s) THEN Append(s, x)
    ELSE SubSeq(s, 1, index) \o <<x>> \o SubSeq(s, index + 1, Len(s))

\* The editor ([cells, layout]) after _insert_code_cell(cell, index), called with
\* index = rowCount(): the editor row and the output row go below the last row;
\* a falsy execution count shows the blank prompt.
insert_code_cell(ed, cell, index) ==
    [cells |-> ListInsert(ed.cells, index, CellData(cell.execution_count)),
     layout |-> ed.layout \o <<Row("code", cell.source), Row("output", <<>>)>>]

insert_markdown_cell(ed, cell, index) ==
    [ed EXCEPT !.layout = Append(@, Row("markdown", cell.source))]

insert_raw_cell(ed, cell, index) ==
    [ed EXCEPT !.layout = Append(@, Row("raw", cell.source))]

\* The editor after append_cell(cell): a cell of none of the three classes is
\* not inserted.
append_cell(ed, cell) ==
    LET index == rowCount(ed.layout)
    IN  IF IsInstance(cell, "CodeCell") THEN insert_code_cell(ed, cell, index)
        ELSE IF IsInstance(cell, "MarkdownCell") THEN insert_markdown_cell(ed, cell, index)
        ELSE IF IsInstance(cell, "RawCell") THEN insert_raw_cell(ed, cell, index)
        ELSE ed

\* normalize_source: a list of lines is joined with the empty separator
normalize_source(source) ==
    IF source.is_list THEN Join(<<>>, source.value) ELSE source.value

\* the cell types for which the loop of setNoteBookCells has a branch
LoadedCellTypes == {"code", "markdown", "raw"}

\* The cell object the loop of setNoteBookCells builds from a record of one of
\* these types and hands to append_cell: a raw record becomes a plain Cell.
CellOfRecord(ns) ==
    LET source == normalize_source(ns.source)
    IN  IF ns.cell_type = "code"
        THEN CellObject("CodeCell", "code", source, ns.execution_count)
        ELSE IF ns.cell_type = "markdown"
        THEN CellObject("MarkdownCell", "markdown", source, None)
        ELSE CellObject("Cell", "raw", source, None)

RECURSIVE AppendCells(_, _)
\* the loop of setNoteBookCells over the records, in document order
AppendCells(ed, records) ==
    IF records = <<>> THEN ed
    ELSE AppendCells(IF Head(records).cell_type \in LoadedCellTypes
                     THEN append_cell(ed, CellOfRecord(Head(records)))
                     ELSE ed,
                     Tail(records))

setNoteBookCells(data) ==
    LET ed == AppendCells([cells |-> cells, layout |-> layout], data)
    IN  /\ cells' = ed.cells
        /\ layout' = ed.layout
        /\ UNCHANGED <<kernel_client, execute_msg_ids>>

\* execute_cell statement by statement, for a host that runs the message
\* handlers on another thread.  call is [step, index, msg_id]: the statement
\* that ran last, the cell, and the id kernel_client.execute returned.
Call(step, index, msg_id) == [step |-> step, index |-> index, msg_id |-> msg_id]

\* no call of execute_cell is in progress
Idle == Call("idle", None, None)

\* old_msg_id = cell.execute_request_msg_id; self._execute_msg_ids.pop(old_msg_id, None)
execute_cell_pop(index) ==
    /\ execute_msg_ids' = TablePop(execute_msg_ids, cells[index].execute_request_msg_id)
    /\ submit' = Call("pop", index, None)
    /\ UNCHANGED <<kernel_client, cells>>

\* source = cell.source(); cell.clearoutput()
execute_cell_clear ==
    /\ cells' = [cells EXCEPT ![submit.index] = clearoutput(@)]
    /\ submit' = Call("clear", submit.index, None)
    /\ UNCHANGED <<kernel_client, execute_msg_ids>>

\* cell.execute_request_msg_id = self.kernel_client.execute(source, ): with no
\* kernel client the statement raises and the call ends.
execute_cell_execute(msg_id) ==
    /\ IF kernel_client = None
       THEN /\ submit' = Idle
            /\ UNCHANGED cells
       ELSE /\ cells' = [cells EXCEPT ![submit.index].execute_request_msg_id = msg_id]
            /\ submit' = Call("execute", submit.index, msg_id)
    /\ UNCHANGED <<kernel_client, execute_msg_ids>>

\* self._execute_msg_ids[cell.execute_request_msg_id] = cell
execute_cell_register ==
    /\ execute_msg_ids' = TablePut(execute_msg_ids, submit.msg_id, submit.index)
    /\ submit' = Idle
    /\ UNCHANGED <<kernel_client, cells>>

\* _remove_cell(index), index counted from 0.  Out of range it returns.  In
\* range it raises AttributeError: a QGridLayout has itemAtPosition, and
\* neither it nor _CellLayout defines itemAtPos, so no item is removed.
remove_cell(index) ==
    UNCHANGED <<kernel_client, cells, layout, execute_msg_ids>>

\* whether _remove_cell(index) raises
remove_cell_raises(index) == 0 <= index /\ index < rowCount(layout)

\* Faulty variant: the cell is registered before the new id is stored in it,
\* under the id of its previous request.
execute_cell_registers_old_id(index, msg_id) ==
    LET cell == cells[index]
        old_msg_id == cell.execute_request_msg_id
        popped == TablePop(execute_msg_ids, old_msg_id)
        cleared == clearoutput(cell)
    IN  IF kernel_client = None
        THEN /\ execute_msg_ids' = popped
             /\ cells' = [cells EXCEPT ![index] = cleared]
             /\ UNCHANGED kernel_client
        ELSE /\ cells' = [cells EXCEPT ![index] =
                             [cleared EXCEPT !.execute_request_msg_id = msg_id]]
             /\ execute_msg_ids' = TablePut(popped, old_msg_id, index)
             /\ UNCHANGED kernel_client

\* Faulty variant: the outputs of all cells are cleared.
execute_cell_clears_all_outputs(index, msg_id) ==
    LET cell == cells[index]
        old_msg_id == cell.execute_request_msg_id
        popped == TablePop(execute_msg_ids, old_msg_id)
        cleared == [c \in 1..Len(cells) |-> clearoutput(cells[c])]
    IN  IF kernel_client = None
        THEN /\ execute_msg_ids' = popped
             /\ cells' = cleared
             /\ UNCHANGED kernel_client
        ELSE /\ cells' = [cleared EXCEPT ![index].execute_request_msg_id = msg_id]
             /\ execute_msg_ids' = TablePut(popped, msg_id, index)
             /\ UNCHANGED kernel_client

\* Faulty variant: the table is emptied, not only of the cell's previous request.
execute_cell_resets_table(index, msg_id) ==
    LET cell == cells[index]
        cleared == clearoutput(cell)
    IN  IF kernel_client = None
        THEN /\ execute_msg_ids' = <<>>
             /\ cells' = [cells EXCEPT ![index] = cleared]
             /\ UNCHANGED kernel_client
        ELSE /\ cells' = [cells EXCEPT ![index] =
                             [cleared EXCEPT !.execute_request_msg_id = msg_id]]
             /\ execute_msg_ids' = TablePut(<<>>, msg_id, index)
             /\ UNCHANGED kernel_client

\* Faulty variant: the entry of the previous request is not popped.
execute_cell_keeps_old_entry(index, msg_id) ==
    LET cell == cells[index]
        cleared == clearoutput(cell)
    IN  IF kernel_client = None
        THEN /\ cells' = [cells EXCEPT ![index] = cleared]
             /\ UNCHANGED <<kernel_client, execute_msg_ids>>
        ELSE /\ cells' = [cells EXCEPT ![index] =
                             [cleared EXCEPT !.execute_request_msg_id = msg_id]]
             /\ execute_msg_ids' = TablePut(execute_msg_ids, msg_id, index)
             /\ UNCHANGED kernel_client

\* Faulty variant: the output view is not cleared.
execute_cell_keeps_output(index, msg_id) ==
    LET cell == cells[index]
        old_msg_id == cell.execute_request_msg_id
        popped == TablePop(execute_msg_ids, old_msg_id)
    IN  IF kernel_client = None
        THEN /\ execute_msg_ids' = popped
             /\ UNCHANGED <<kernel_client, cells>>
        ELSE /\ cells' = [cells EXCEPT ![index].execute_request_msg_id = msg_id]
             /\ execute_msg_ids' = TablePut(popped, msg_id, index)
             /\ UNCHANGED kernel_client

\* msg_id is what kernel_client.execute(source) returns.  With no kernel client
\* the call raises AttributeError after the pop and the clear.
execute_cell(index, msg_id) ==
    LET cell == cells[index]
        old_msg_id == cell.execute_request_msg_id
        popped == TablePop(execute_msg_ids, old_msg_id)
        cleared == clearoutput(cell)
    IN  IF kernel_client = None
        THEN /\ execute_msg_ids' = popped
             /\ cells' = [cells EXCEPT ![index] = cleared]
             /\ UNCHANGED kernel_client
        ELSE /\ cells' = [cells EXCEPT ![index] =
                             [cleared EXCEPT !.execute_request_msg_id = msg_id]]
             /\ execute_msg_ids' = TablePut(popped, msg_id, index)
             /\ UNCHANGED kernel_client

\* The cell after _handle_image_display_data(cell, data).
handle_image_display_data(cell, data, tag) ==
    LET image_data == ImageData(data)
        item == PopItem(image_data)
        mimetype == item[1]
        payload == item[2]
        view == cell.output
        text == DictGet(data, "text/plain", <<>>)
    IN  IF ViewIsPlainTextEdit
        THEN IF text # <<>>
             THEN setVisible([cell EXCEPT !.output = append_plain_text(view, text, tag)])
             ELSE cell
        ELSE IF mimetype = "image/png"
        THEN [cell EXCEPT !.output =
                 append_html_contents(
                     view,
                     <<"<br/><img src=", "data:image/png;base64,">> \o payload \o <<"/>">>,
                     tag)]
        ELSE IF mimetype = "image/svg+xml"
        THEN [cell EXCEPT !.output =
                 append_svg_contents(append_plain_text(view, <<NL>>, tag), payload, tag)]
        ELSE cell

\* The cell after _handle_html_display_data(cell, data); a QTextBrowser is a QTextEdit.
handle_html_display_data(cell, data, tag) ==
    LET view == cell.output
        content == DictGet(data, "text/html", <<>>)
    IN  [cell EXCEPT !.output = append_html_contents(view, content, tag)]

\* Faulty variant: the traceback is appended without the test that it is not empty.
handle_execute_reply_appends_empty(msg, tag) ==
    LET parent_msg_id == ParentMsgId(msg)
        index == TableGet(execute_msg_ids, parent_msg_id)
    IN  /\ IF index # None
           THEN LET cell == cells[index]
                    content == msg.content
                    status == content.status
                    tb == remove_ansi_control(Join(<<NL>>, content.traceback))
                    shown == IF status = "error"
                             THEN setVisible([cell EXCEPT !.output =
                                                 append_plain_text(cell.output, tb, tag)])
                             ELSE cell
                IN  cells' = [cells EXCEPT ![index] =
                                 set_execution_count(shown, content.execution_count)]
           ELSE UNCHANGED cells
        /\ UNCHANGED <<kernel_client, execute_msg_ids>>

handle_execute_reply(msg, tag) ==
    LET parent_msg_id == ParentMsgId(msg)
        index == TableGet(execute_msg_ids, parent_msg_id)
    IN  /\ IF index # None
           THEN LET cell == cells[index]
                    content == msg.content
                    status == content.status
                    tb == remove_ansi_control(Join(<<NL>>, content.traceback))
                    shown == IF status = "error" /\ tb # <<>>
                             THEN setVisible([cell EXCEPT !.output =
                                                 append_plain_text(cell.output, tb, tag)])
                             ELSE cell
                IN  cells' = [cells EXCEPT ![index] =
                                 set_execution_count(shown, content.execution_count)]
           ELSE UNCHANGED cells
        /\ UNCHANGED <<kernel_client, execute_msg_ids>>

\* Faulty variant: the text is read from the text/html key.
handle_execute_result_reads_html(msg, tag) ==
    LET parent_msg_id == ParentMsgId(msg)
        index == TableGet(execute_msg_ids, parent_msg_id)
    IN  /\ IF index # None
           THEN LET cell == cells[index]
                    content == msg.content
                    data == content.data
                    text == DictGet(data, "text/html", <<>>)
                    shown == IF text # <<>>
                             THEN setVisible([cell EXCEPT !.output =
                                                 append_plain_text(cell.output, text, tag)])
                             ELSE cell
                    counted == set_execution_count(shown, content.execution_count)
                IN  cells' = [cells EXCEPT ![index] =
                                 [counted EXCEPT !.output_content = Append(@, data)]]
           ELSE UNCHANGED cells
        /\ UNCHANGED <<kernel_client, execute_msg_ids>>

handle_execute_result(msg, tag) ==
    LET parent_msg_id == ParentMsgId(msg)
        index == TableGet(execute_msg_ids, parent_msg_id)
    IN  /\ IF index # None
           THEN LET cell == cells[index]
                    content == msg.content
                    data == content.data
                    text == DictGet(data, "text/plain", <<>>)
                    shown == IF text # <<>>
                             THEN setVisible([cell EXCEPT !.output =
                                                 append_plain_text(cell.output, text, tag)])
                             ELSE cell
                    counted == set_execution_count(shown, content.execution_count)
                IN  cells' = [cells EXCEPT ![index] =
                                 [counted EXCEPT !.output_content = Append(@, data)]]
           ELSE UNCHANGED cells
        /\ UNCHANGED <<kernel_client, execute_msg_ids>>

\* Faulty variant: a payload with neither an image nor html is shown as its text/plain.
display_data_plain_fallback(cell, data, tag) ==
    LET image_data == ImageData(data)
        html_data == DictGet(data, "text/html", <<>>)
        text == DictGet(data, "text/plain", <<>>)
    IN  IF image_data # <<>>
        THEN handle_image_display_data(cell, image_data, tag)
        ELSE IF html_data # <<>>
        THEN handle_html_display_data(cell, data, tag)
        ELSE IF text # <<>>
        THEN setVisible([cell EXCEPT !.output = append_plain_text(cell.output, text, tag)])
        ELSE cell

\* The cell after the body of _handle_display_data that runs once the cell is found.
display_data(cell, data, tag) ==
    LET image_data == ImageData(data)
        html_data == DictGet(data, "text/html", <<>>)
    IN  IF image_data # <<>>
        THEN handle_image_display_data(cell, image_data, tag)
        ELSE IF html_data # <<>>
        THEN handle_html_display_data(cell, data, tag)
        ELSE cell

handle_display_data(msg, tag) ==
    LET parent_msg_id == ParentMsgId(msg)
        index == TableGet(execute_msg_ids, parent_msg_id)
    IN  /\ IF index # None
           THEN cells' = [cells EXCEPT ![index] = display_data(cells[index], msg.content.data, tag)]
           ELSE UNCHANGED cells
        /\ UNCHANGED <<kernel_client, execute_msg_ids>>

\* Faulty variant: every stream is shown with the class of the standard output.
handle_stream_always_stdout(msg, tag) ==
    LET parent_msg_id == ParentMsgId(msg)
        index == TableGet(execute_msg_ids, parent_msg_id)
    IN  /\ IF index # None
           THEN LET cell == cells[index]
                    content == msg.content
                    text == content.text
                    shown == IF text # <<>>
                             THEN setVisible([cell EXCEPT !.output =
                                                 append_html_contents(
                                                     cell.output,
                                                     <<"<span class=", "stdout", ">">>
                                                         \o escape(text) \o <<"</span>">>,
                                                     tag)])
                             ELSE cell
                IN  cells' = [cells EXCEPT ![index] =
                                 set_execution_count(shown, content.execution_count)]
           ELSE UNCHANGED cells
        /\ UNCHANGED <<kernel_client, execute_msg_ids>>

handle_stream(msg, tag) ==
    LET parent_msg_id == ParentMsgId(msg)
        index == TableGet(execute_msg_ids, parent_msg_id)
    IN  /\ IF index # None
           THEN LET cell == cells[index]
                    content == msg.content
                    text == content.text
                    name == content.name
                    shown == IF text # <<>>
                             THEN setVisible([cell EXCEPT !.output =
                                                 append_html_contents(
                                                     cell.output,
                                                     <<"<span class=", name, ">">>
                                                         \o escape(text) \o <<"</span>">>,
                                                     tag)])
                             ELSE cell
                IN  cells' = [cells EXCEPT ![index] =
                                 set_execution_count(shown, content.execution_count)]
           ELSE UNCHANGED cells
        /\ UNCHANGED <<kernel_client, execute_msg_ids>>

\* ------------------------------------------------------------------ CachedBytesIOWrapper
\* the largest size passed to read
MaxSize == 3

\* read(size): None and the negative sizes are the one case -1
ReadSizes == -1..MaxSize

\* the contents of the base streams
BaseContents == {<<>>, <<"a", "b">>, <<"a", "b", "c", "d", "e">>}

Min(a, b) == IF a < b THEN a ELSE b

\* a stream of bytes: what it holds and the position of the next read or write
Stream(content, pos) == [content |-> content, pos |-> pos]

\* f.read(size) of a BytesIO, and of a base that returns all it is asked for
\* when it has it: the bytes and the stream afterwards; a negative size reads
\* to the end
stream_read(f, size) ==
    LET stop == IF size < 0 THEN Len(f.content) ELSE Min(f.pos + size, Len(f.content))
    IN  IF f.pos >= Len(f.content)
        THEN [b |-> <<>>, f |-> f]
        ELSE [b |-> SubSeq(f.content, f.pos + 1, stop), f |-> Stream(f.content, stop)]

\* BytesIO.write(b): the bytes go in at the position, over what is there
bytesio_write(f, b) ==
    Stream(SubSeq(f.content, 1, f.pos) \o b
               \o SubSeq(f.content, f.pos + Len(b) + 1, Len(f.content)),
           f.pos + Len(b))

\* the number of bytes read(size) asks of the base: -1 for all, 0 when the
\* cache alone serves the call
BaseRequest(size) ==
    IF size < 0 THEN -1
    ELSE IF cache.pos < Len(cache.content)
    THEN IF Len(cache.content) - cache.pos < size
         THEN size - (Len(cache.content) - cache.pos)
         ELSE 0
    ELSE size

\* the numbers of bytes base.read(m) may return: all that is left for m < 0,
\* else at least one byte and at most m while bytes are left
BaseReadLengths(m) ==
    LET left == Len(base.content) - base.pos
    IN  IF m < 0 THEN {left}
        ELSE IF m = 0 \/ left = 0 THEN {0}
        ELSE 1..Min(m, left)

\* what one call of read leaves: the bytes returned, how many of them came
\* from the cache and from the base, the two streams, whether the asserts held
ReadResult(b1, b2, base_, cache_, asserted) ==
    [b |-> b1 \o b2, from_cache |-> Len(b1), from_base |-> Len(b2),
     base |-> base_, cache |-> cache_, asserted |-> asserted]

\* len(cache.getbuffer()) == cache.tell()
AtEnd(f) == Len(f.content) = f.pos

\* Faulty variant: the bytes read from the base after the cache ran out are not
\* written to the cache.
read_drops_tail(size, n) ==
    IF size < 0
    THEN LET r1 == stream_read(cache, -1)
             r2 == stream_read(base, n)
         IN  ReadResult(r1.b, r2.b, r2.f, bytesio_write(r1.f, r2.b), TRUE)
    ELSE IF cache.pos < Len(cache.content)
    THEN LET r1 == stream_read(cache, size)
         IN  IF Len(r1.b) < size
             THEN LET r2 == stream_read(base, n)
                  IN  ReadResult(r1.b, r2.b, r2.f, r1.f, AtEnd(r1.f))
             ELSE ReadResult(r1.b, <<>>, base, r1.f, TRUE)
    ELSE LET r2 == stream_read(base, n)
             c2 == bytesio_write(cache, r2.b)
         IN  ReadResult(<<>>, r2.b, r2.f, c2, AtEnd(c2))

\* CachedBytesIOWrapper.read(size); n is the number of bytes the base returns
\* to the call, when the call reads the base
read(size, n) ==
    IF size < 0
    THEN LET r1 == stream_read(cache, -1)
             r2 == stream_read(base, n)
         IN  ReadResult(r1.b, r2.b, r2.f, bytesio_write(r1.f, r2.b), TRUE)
    ELSE IF cache.pos < Len(cache.content)
    THEN LET r1 == stream_read(cache, size)
         IN  IF Len(r1.b) < size
             THEN LET r2 == stream_read(base, n)
                      c2 == bytesio_write(r1.f, r2.b)
                  IN  ReadResult(r1.b, r2.b, r2.f, c2, AtEnd(r1.f) /\ AtEnd(c2))
             ELSE ReadResult(r1.b, <<>>, base, r1.f, TRUE)
    ELSE LET r2 == stream_read(base, n)
             c2 == bytesio_write(cache, r2.b)
         IN  ReadResult(<<>>, r2.b, r2.f, c2, AtEnd(c2))

\* the wrapper's variables before a sample is set
CacheIdle ==
    /\ base = Stream(<<>>, 0)
    /\ cache = Stream(<<>>, 0)
    /\ returned = <<>>

\* ------------------------------------------------------------------ TablePreviewModel
\* the most items in a short row stream
MaxItems == 3

\* fetchMore asks for this many rows while the model has none
FirstFetch == 20

\* and for this many afterwards
NextFetch == 5

\* self.__error = None
NoError == "None"

\* what next(rows) does: hands out a row, or raises
Yield(row) == [raises |-> FALSE, row |-> row]
Raise == [raises |-> TRUE, row |-> <<>>]

StreamItems == {Yield(<<>>), Yield(<<"a">>), Yield(<<"a", "b">>), Raise}

\* a stream longer than two fetches, with its widest row in the second one
LongStream ==
    [i \in 1..(FirstFetch + NextFetch + 2) |->
        Yield(IF i = FirstFetch + 3 THEN <<"a", "b", "c">> ELSE <<"a">>)]

\* the row streams handed to setPreviewStream: a csv.reader goes on with the
\* next line after it raised, a generator is exhausted after it raised
PreviewStreams ==
    UNION {[1..n -> StreamItems] : n \in 0..MaxItems} \cup {LongStream}

\* the iterator: `set` is FALSE while self.__iter is None
Iterator(set, items, pos) == [set |-> set, items |-> items, pos |-> pos]

\* TablePreviewModel.__init__
PreviewModel ==
    [iter |-> Iterator(FALSE, <<>>, 0), rows |-> <<>>, rowCount |-> 0,
     colCount |-> 0, canFetchMore |-> FALSE, error |-> NoError]

\* TablePreviewModel.setPreviewStream(stream)
setPreviewStream(p, stream) ==
    [p EXCEPT !.iter = Iterator(TRUE, stream, 0), !.rows = <<>>,
              !.rowCount = 0, !.colCount = 0, !.canFetchMore = TRUE,
              !.error = NoError]

\* TablePreviewModel.__tryFetchRows(n), with the rows fetched so far: the model
\* afterwards and the rows
RECURSIVE tryFetchRows(_, _, _)
tryFetchRows(p, n, rows) ==
    IF n = 0 THEN [model |-> p, rows |-> rows]
    ELSE IF ~p.iter.set
    THEN [model |-> [p EXCEPT !.error = "TypeError", !.canFetchMore = FALSE],
          rows |-> rows]
    ELSE IF p.iter.pos >= Len(p.iter.items)
    THEN [model |-> [p EXCEPT !.canFetchMore = FALSE], rows |-> rows]
    ELSE LET item == p.iter.items[p.iter.pos + 1]
             q == [p EXCEPT !.iter.pos = @ + 1]
         IN  IF item.raises
             THEN [model |-> [q EXCEPT !.error = "Error", !.canFetchMore = FALSE],
                   rows |-> rows]
             ELSE tryFetchRows(q, n - 1, Append(rows, item.row))

\* max(len(row) for row in rows), 0 for no rows
RECURSIVE Longest(_)
Longest(rows) ==
    IF rows = <<>> THEN 0
    ELSE LET rest == Longest(Tail(rows))
         IN  IF Len(Head(rows)) > rest THEN Len(Head(rows)) ELSE rest

\* Faulty variant: the column count follows the width of the last batch.
fetchMore_last_batch_width(p) ==
    LET r == tryFetchRows(p, IF p.rowCount = 0 THEN FirstFetch ELSE NextFetch, <<>>)
    IN  IF r.rows # <<>>
        THEN [r.model EXCEPT !.rows = @ \o r.rows,
                             !.rowCount = @ + Len(r.rows),
                             !.colCount = Longest(r.rows)]
        ELSE r.model

\* TablePreviewModel.fetchMore()
fetchMore(p) ==
    LET r == tryFetchRows(p, IF p.rowCount = 0 THEN FirstFetch ELSE NextFetch, <<>>)
        extent == <<Len(r.rows), Longest(r.rows)>>
    IN  IF r.rows # <<>>
        THEN [r.model EXCEPT !.rows = @ \o r.rows,
                             !.rowCount = @ + extent[1],
                             !.colCount = IF @ < extent[2]
                                          THEN (IF @ > extent[2] THEN @ ELSE extent[2])
                                          ELSE @]
        ELSE r.model

\* ------------------------------------------------------------------ CSVImportWidget
\* the columns that setColumnTypes is given types for are below this number
MaxCols == 3

Columns == 0..(MaxCols - 1)

\* two of the members of ColumnType: the default and one of the others
ColumnTypes == {"Auto", "Numeric"}

\* None where a ColumnType is expected: no type was set
NoColumnType == "None"

\* a dict with integer keys is a function on the set of its keys
EmptyDict == [k \in {} |-> NoColumnType]

\* dict.fromkeys(keys, value)
fromkeys(keys, value) == [k \in keys |-> value]

\* d.update(e), as a value
update(d, e) ==
    [k \in DOMAIN d \cup DOMAIN e |-> IF k \in DOMAIN e THEN e[k] ELSE d[k]]

\* the dicts handed to setColumnTypes: None asks for the default
TypeDicts ==
    UNION {[keys -> ColumnTypes \cup {NoColumnType}] : keys \in SUBSET Columns}

\* the row streams a sample parses to under some dialect and encoding
SampleStreams == {stream \in PreviewStreams : Len(stream) <= 1} \cup {LongStream}

\* CSVImportWidget.__init__: no sample, no preview model, the timer not running;
\* header is the preview model's header data for ColumnTypeRole
Widget(sample, model, header, timer) ==
    [sample |-> sample, model |-> model, header |-> header, timer |-> timer]

WidgetIdle == Widget(FALSE, FALSE, EmptyDict, FALSE)

\* model.headerData(section, Qt.Horizontal, ColumnTypeRole)
headerData(header, section) ==
    IF section \in DOMAIN header THEN header[section] ELSE NoColumnType

\* __setColumnType(columns, coltype): setHeaderData of each column, which
\* deletes the entry when the value is None
setColumnType(header, columns, coltype) ==
    IF coltype = NoColumnType
    THEN [k \in DOMAIN header \ columns |-> header[k]]
    ELSE [k \in DOMAIN header \cup columns |->
              IF k \in columns THEN coltype ELSE header[k]]

\* mapping_invert(mapping): the keys of each value
mapping_invert(mapping) ==
    [val \in {mapping[k] : k \in DOMAIN mapping} |->
        {k \in DOMAIN mapping : mapping[k] = val}]

\* for coltype, cols in m.items(): self.__setColumnType(cols, coltype)
RECURSIVE SetColumnTypeOfEach(_, _, _)
SetColumnTypeOfEach(header, m, coltypes) ==
    IF coltypes = {} THEN header
    ELSE LET coltype == CHOOSE t \in coltypes : TRUE
         IN  SetColumnTypeOfEach(setColumnType(header, m[coltype], coltype), m,
                                 coltypes \ {coltype})

\* CSVImportWidget.__setColumnTypes(coltypes): the header afterwards
setColumnTypes_(w, p, coltypes) ==
    IF ~w.model THEN w.header
    ELSE LET coltypes_ == update(fromkeys(0..(p.colCount - 1), "Auto"), coltypes)
             m == mapping_invert(coltypes_)
         IN  SetColumnTypeOfEach(w.header, m, DOMAIN m)

\* CSVImportWidget.__columnTypes(), which is all that columnTypes() returns
columnTypes(w, p) ==
    IF ~w.model THEN EmptyDict
    ELSE LET res == [i \in 0..(p.colCount - 1) |-> headerData(w.header, i)]
         IN  [i \in {i \in DOMAIN res : res[i] \notin {NoColumnType, "Auto"}} |-> res[i]]

\* sorted(d.items()): the (key, value) pairs by key
RECURSIVE sorted_items(_)
sorted_items(d) ==
    IF DOMAIN d = {} THEN <<>>
    ELSE LET k == CHOOSE k \in DOMAIN d : \A j \in DOMAIN d : k <= j
         IN  <<<<k, d[k]>>>> \o sorted_items([j \in DOMAIN d \ {k} |-> d[j]])

\* groupkey(item) at the i-th call of it: the counter has given i - 1
groupkey(types, i) == <<types[i][1] - (i - 1), types[i][2]>>

\* itertools.groupby(types, key=groupkey): the runs of items with equal keys
RECURSIVE groupby(_, _, _)
groupby(types, i, groups) ==
    IF i > Len(types) THEN groups
    ELSE IF groups # <<>> /\ groupkey(types, i) = groupkey(types, i - 1)
    THEN groupby(types, i + 1,
                 [groups EXCEPT ![Len(groups)] = Append(@, types[i])])
    ELSE groupby(types, i + 1, Append(groups, <<types[i]>>))

\* range(start, stop)
range(start, stop) == [start |-> start, stop |-> stop]

\* the (range, coltype) pair of a group
RangeOfGroup(items) ==
    [range |-> range(items[1][1], items[Len(items)][1] + 1), coltype |-> items[1][2]]

\* Faulty variant: as columnTypes, the ranges leave out the Auto columns.
columnTypeRanges_omits_auto(w, p) ==
    IF ~w.model THEN <<>>
    ELSE LET types == sorted_items(columnTypes(w, p))
             groups == groupby(types, 1, <<>>)
         IN  [g \in 1..Len(groups) |-> RangeOfGroup(groups[g])]

\* CSVImportWidget.columnTypeRanges()
columnTypeRanges(w, p) ==
    IF ~w.model THEN <<>>
    ELSE LET res == update(fromkeys(0..(p.colCount - 1), "Auto"), columnTypes(w, p))
             types == sorted_items(res)
             groups == groupby(types, 1, <<>>)
         IN  [g \in 1..Len(groups) |-> RangeOfGroup(groups[g])]

\* {i: coltype for r, coltype in ranges for i in r}
RECURSIVE DictOfRanges(_)
DictOfRanges(ranges) ==
    IF ranges = <<>> THEN EmptyDict
    ELSE LET n == Len(ranges)
             r == ranges[n]
         IN  update(DictOfRanges(SubSeq(ranges, 1, n - 1)),
                    fromkeys(r.range.start..(r.range.stop - 1), r.coltype))

\* CSVImportWidget.__resetPreview(), the sample parsing to `stream`: the widget
\* and its preview model afterwards
resetPreview(w, p, stream) ==
    LET colstate == columnTypes(w, p)
    IN  IF ~w.sample
        THEN [widget |-> Widget(w.sample, FALSE, EmptyDict, FALSE), preview |-> p]
        ELSE LET q == fetchMore(setPreviewStream(PreviewModel, stream))
                 v == Widget(TRUE, TRUE, EmptyDict, FALSE)
             IN  [widget |-> IF q.colCount = Cardinality(DOMAIN colstate)
                             THEN [v EXCEPT !.header = setColumnTypes_(v, q, colstate)]
                             ELSE v,
                  preview |-> q]

\* CSVImportWidget.setColumnTypes(types); `stream` is what the sample parses to
\* if the pending options change makes the call reset the preview
setColumnTypes(w, p, types, stream) ==
    LET r == IF w.timer THEN resetPreview(w, p, stream)
             ELSE [widget |-> w, preview |-> p]
    IN  [r EXCEPT !.widget.header = setColumnTypes_(r.widget, r.preview, types)]

\* CSVImportWidget.setColumnTypeRanges(ranges)
setColumnTypeRanges(w, p, ranges, stream) ==
    setColumnTypes(w, p, DictOfRanges(ranges), stream)

\* ------------------------------------------------------------------ the system
Init ==
    /\ notebook = NoNotebook
    /\ kernel_client \in {None, Client}
    /\ cells = <<>>
    /\ layout = <<>>
    /\ execute_msg_ids = <<>>
    /\ submit = Idle
    /\ issued = <<>>
    /\ ndelivered = 0
    /\ last = Op("init", None, None, FALSE, NoContent)
    /\ CacheIdle
    /\ preview = PreviewModel
    /\ widget = WidgetIdle

\* The host attaches or detaches the kernel client.
AttachKernelClient ==
    \E client \in {None, Client} :
        /\ client # kernel_client
        /\ SetKernelClient(client)
        /\ last' = Op("kernel_client", None, None, FALSE, NoContent)
        /\ UNCHANGED <<notebook, layout, submit, issued, ndelivered>>
        /\ UNCHANGED tivars

\* main(): the notebook document is loaded, once.
LoadNotebook ==
    \E data \in Notebooks :
        /\ notebook = NoNotebook
        /\ notebook' = data
        /\ setNoteBookCells(data)
        /\ last' = Op("load", None, None, FALSE, NoContent)
        /\ UNCHANGED <<submit, issued, ndelivered>>
        /\ UNCHANGED tivars

\* The user executes a cell; the kernel client answers with the next fresh id.
ExecuteCell ==
    \E index \in 1..Len(cells) :
        /\ Len(issued) < MaxRequests
        /\ execute_cell(index, Len(issued) + 1)
        /\ issued' = IF kernel_client = None THEN issued ELSE Append(issued, index)
        /\ last' = Op("execute_cell", index, None, kernel_client = None, NoContent)
        /\ UNCHANGED <<notebook, layout, submit, ndelivered>>
        /\ UNCHANGED tivars

\* _remove_cell is called on index 0: out of range before a document is loaded,
\* afterwards the row of the editor of the document's first cell.
RemoveCell ==
    \E index \in {0} :
        /\ remove_cell(index)
        /\ last' = Op("remove_cell", index, None, remove_cell_raises(index), NoContent)
        /\ UNCHANGED <<notebook, submit, issued, ndelivered>>
        /\ UNCHANGED tivars

\* The kernel client delivers one message; _dispatch calls the handler of its type.
Tag(msg) == [parent |-> ParentMsgId(msg), delivery |-> ndelivered + 1]

Delivered(msg) ==
    /\ ndelivered < MaxDeliveries
    /\ ndelivered' = ndelivered + 1
    /\ last' = Op(msg.msg_type, TableGet(execute_msg_ids, ParentMsgId(msg)), ParentMsgId(msg),
                   FALSE,
                   IF TableGet(execute_msg_ids, ParentMsgId(msg)) # None
                   THEN msg.content ELSE NoContent)
    /\ UNCHANGED <<notebook, layout, submit, issued>>
    /\ UNCHANGED tivars

DeliverExecuteReply ==
    \E msg \in ExecuteReplyMsgs : Delivered(msg) /\ handle_execute_reply(msg, Tag(msg))

DeliverExecuteResult ==
    \E msg \in ExecuteResultMsgs : Delivered(msg) /\ handle_execute_result(msg, Tag(msg))

DeliverDisplayData ==
    \E msg \in DisplayDataMsgs : Delivered(msg) /\ handle_display_data(msg, Tag(msg))

DeliverStream ==
    \E msg \in StreamMsgs : Delivered(msg) /\ handle_stream(msg, Tag(msg))

Next ==
    \/ AttachKernelClient
    \/ LoadNotebook
    \/ ExecuteCell
    \/ RemoveCell
    \/ DeliverExecuteReply
    \/ DeliverExecuteResult
    \/ DeliverDisplayData
    \/ DeliverStream

Spec == Init /\ [][Next]_vars

\* ------------------------------------------------------------------ handlers on another thread
\* The user's thread runs execute_cell one statement at a time; the kernel
\* client's thread may deliver a message between any two of them.  A kernel
\* client is attached from the start.
InitThreads == Init /\ kernel_client = Client

ExecuteCellPop ==
    \E index \in 1..Len(cells) :
        /\ submit = Idle
        /\ Len(issued) < MaxRequests
        /\ execute_cell_pop(index)
        /\ last' = Op("execute_cell.pop", index, None, FALSE, NoContent)
        /\ UNCHANGED <<notebook, layout, issued, ndelivered>>
        /\ UNCHANGED tivars

ExecuteCellClear ==
    /\ submit.step = "pop"
    /\ execute_cell_clear
    /\ last' = Op("execute_cell.clear", submit.index, None, FALSE, NoContent)
    /\ UNCHANGED <<notebook, layout, issued, ndelivered>>
    /\ UNCHANGED tivars

ExecuteCellExecute ==
    /\ submit.step = "clear"
    /\ execute_cell_execute(Len(issued) + 1)
    /\ issued' = IF kernel_client = None THEN issued ELSE Append(issued, submit.index)
    /\ last' = Op("execute_cell.execute", submit.index, None, kernel_client = None, NoContent)
    /\ UNCHANGED <<notebook, layout, ndelivered>>
    /\ UNCHANGED tivars

ExecuteCellRegister ==
    /\ submit.step = "execute"
    /\ execute_cell_register
    /\ last' = Op("execute_cell", submit.index, None, FALSE, NoContent)
    /\ UNCHANGED <<notebook, layout, issued, ndelivered>>
    /\ UNCHANGED tivars

NextThreads ==
    \/ LoadNotebook
    \/ ExecuteCellPop
    \/ ExecuteCellClear
    \/ ExecuteCellExecute
    \/ ExecuteCellRegister
    \/ DeliverExecuteReply
    \/ DeliverExecuteResult
    \/ DeliverDisplayData
    \/ DeliverStream

SpecThreads == InitThreads /\ [][NextThreads]_vars

\* the notebook editor as constructed, with nothing loaded and no kernel client
NotebookIdle ==
    /\ notebook = NoNotebook
    /\ kernel_client = None
    /\ cells = <<>>
    /\ layout = <<>>
    /\ execute_msg_ids = <<>>
    /\ submit = Idle
    /\ issued = <<>>
    /\ ndelivered = 0

\* ------------------------------------------------------------------ reads through the wrapper
\* setSampleContents(stream) with a stream that is not seekable: a fresh buffer,
\* and __resetPreview puts a wrapper over the two.
InitCache ==
    /\ NotebookIdle
    /\ last = Op("init", None, None, FALSE, NoContent)
    /\ base \in {Stream(content, 0) : content \in BaseContents}
    /\ cache = Stream(<<>>, 0)
    /\ returned = <<>>
    /\ preview = PreviewModel
    /\ widget = WidgetIdle

\* the text wrapper reads through the wrapper
Read ==
    \E size \in ReadSizes :
        \E n \in BaseReadLengths(BaseRequest(size)) :
            LET r == read(size, n)
            IN  /\ base' = r.base
                /\ cache' = r.cache
                /\ returned' = returned \o r.b
                /\ last' = Op("read", None, None, ~r.asserted,
                               [size |-> size, from_cache |-> r.from_cache,
                                from_base |-> r.from_base])
                /\ UNCHANGED <<nbvars, preview, widget>>

\* __resetPreview: the buffer is rewound and a new wrapper is put over the same
\* base and buffer
Restart ==
    /\ cache' = Stream(cache.content, 0)
    /\ returned' = <<>>
    /\ last' = Op("restart", None, None, FALSE, NoContent)
    /\ UNCHANGED <<nbvars, base, preview, widget>>

NextCache ==
    \/ Read
    \/ Restart

SpecCache == InitCache /\ [][NextCache]_vars

\* ------------------------------------------------------------------ history
MsgTypes == {"stream", "execute_reply", "execute_result", "display_data"}

CellIndexes == 1..Len(cells)

\* the ids the kernel client returned for executions of cell c
IssuedTo(c) == {i \in 1..Len(issued) : issued[i] = c}

\* the id returned by the most recent of them, None when there is none
LastIssued(c) ==
    IF IssuedTo(c) = {} THEN None
    ELSE CHOOSE i \in IssuedTo(c) : \A j \in IssuedTo(c) : j <= i

\* the ids the table maps to cell c
EntriesOf(c) == {i \in DOMAIN execute_msg_ids : execute_msg_ids[i] = c}

\* ------------------------------------------------------------------ claims

\* C1: the table holds at most one request id per cell, and that id is the one
\* the cell's most recent submit returned; the ids of its earlier submits are absent.
C1_OnlyLatestRequestInTable ==
    /\ \A i \in DOMAIN execute_msg_ids : execute_msg_ids[i] \in CellIndexes
    /\ \A c \in CellIndexes :
        /\ Cardinality(EntriesOf(c)) <= 1
        /\ \A i \in EntriesOf(c) : i = LastIssued(c)
        /\ \A i \in IssuedTo(c) : i # LastIssued(c) => i \notin DOMAIN execute_msg_ids

\* a cell submitted twice whose second request is in the table
C1_Witness ==
    \E c \in CellIndexes :
        /\ Cardinality(IssuedTo(c)) >= 2
        /\ EntriesOf(c) = {LastIssued(c)}

C3_SubmitClearsOutput ==
    [][\A c \in 1..Len(cells') :
          IF last'.op = "execute_cell" /\ last'.index = c
          THEN cells'[c].output = <<>>
          ELSE \A k \in 1..Len(cells'[c].output) :
                   \/ /\ c \in CellIndexes
                      /\ cells'[c].output[k] \in Range(cells[c].output)
                   \/ /\ last'.op \in MsgTypes
                      /\ last'.index = c
                      /\ ndelivered' = ndelivered + 1
                      /\ cells'[c].output[k].delivery = ndelivered']_vars

\* a submit has just emptied an output view that had been shown with content
C3_Witness ==
    /\ last.op = "execute_cell"
    /\ cells[last.index].visible
    /\ cells[last.index].output = <<>>
    /\ Cardinality(IssuedTo(last.index)) >= 2

\* C4: once a cell was submitted again, a message of any kind whose parent is the
\* earlier request leaves the cell as it was, and its pending request is the later one.
C4_SupersededRequestIgnored ==
    [][\A p \in 1..Len(issued) :
          (/\ last'.op \in MsgTypes
           /\ last'.parent = p
           /\ p # LastIssued(issued[p]))
          => /\ cells'[issued[p]] = cells[issued[p]]
             /\ cells'[issued[p]].execute_request_msg_id = LastIssued(issued[p])]_vars

\* a message for the first request of a cell arrived after the cell's second
\* request had produced output
C4_Witness ==
    /\ last.op \in MsgTypes
    /\ last.parent \in 1..Len(issued)
    /\ last.parent # LastIssued(issued[last.parent])
    /\ cells[issued[last.parent]].output # <<>>

\* C7: a message whose parent id is not a key of the table changes no cell and
\* not the table, and raises nothing.
C7_UnresolvedMessageIsNoOp ==
    [][(last'.op \in MsgTypes /\ last'.parent \notin DOMAIN execute_msg_ids)
          => /\ cells' = cells
             /\ execute_msg_ids' = execute_msg_ids
             /\ last'.index = None
             /\ ~last'.raised]_vars

\* an unresolved message was delivered while a request was pending and a cell had output
C7_Witness ==
    /\ last.op \in MsgTypes
    /\ last.parent \notin DOMAIN execute_msg_ids
    /\ DOMAIN execute_msg_ids # {}
    /\ \E c \in CellIndexes : cells[c].output # <<>>

\* C5: the same execute_reply delivered a second time changes neither the output
\* nor the execution count of any cell (it no longer resolves).
C5_SecondReplyIsNoOp ==
    [][(/\ last.op = "execute_reply"
        /\ last.index # None
        /\ last'.op = "execute_reply"
        /\ last'.parent = last.parent
        /\ last'.content = last.content)
          => cells' = cells]_vars

\* C6: once the execute_reply of a cell's pending request is processed, the
\* request is no longer in the table and the cell has no pending request.
C6_ReplyCompletesRequest ==
    (last.op = "execute_reply" /\ last.index # None)
        => /\ last.parent \notin DOMAIN execute_msg_ids
           /\ cells[last.index].execute_request_msg_id = None

\* C8: a submit with no kernel client raises and leaves the cell and its table
\* entry as they were.
C8_SubmitWithoutClientChangesNothing ==
    [][(last'.op = "execute_cell" /\ kernel_client = None)
          => /\ last'.raised
             /\ cells' = cells
             /\ execute_msg_ids' = execute_msg_ids]_vars

\* the step is the delivery of display_data message msg, resolved to a cell
DisplayDataStep(msg) ==
    /\ TableGet(execute_msg_ids, ParentMsgId(msg)) # None
    /\ Delivered(msg)
    /\ handle_display_data(msg, Tag(msg))

\* what the cell's output holds once an image/png representation was appended
WithPng(cell, data, tag) ==
    cell.output \o
        <<Insertion("html",
                    <<"<br/><img src=", "data:image/png;base64,">>
                        \o DictGet(data, "image/png", <<>>) \o <<"/>">>,
                    tag)>>

\* C9: whenever image/png is among the keys of a display_data payload, image/png is
\* the representation rendered, whatever the other keys and their order.
C9_PngChosenWhenPresent ==
    [][\A msg \in DisplayDataMsgs :
          (DisplayDataStep(msg) /\ "image/png" \in Keys(msg.content.data))
          => LET index == TableGet(execute_msg_ids, ParentMsgId(msg))
             IN  cells'[index].output = WithPng(cells[index], msg.content.data, Tag(msg))]_vars

\* the items of a dict, without their order
Items(d) == Range(d)

\* C10: handling a payload with the same keys and values from the same cell state
\* gives the same cell, whatever the order of the keys.
C10_SamePayloadSameOutput ==
    [][\A msg \in DisplayDataMsgs :
          DisplayDataStep(msg)
          => LET index == TableGet(execute_msg_ids, ParentMsgId(msg))
             IN  \A data \in DisplayPayloads :
                     Items(data) = Items(msg.content.data)
                     => display_data(cells[index], data, Tag(msg)) = cells'[index]]_vars

\* the text of a traceback as the reply handler shows it
TracebackText(traceback) == remove_ansi_control(Join(<<NL>>, traceback))

\* the tag of the insertions made by the step that has just run
LastTag == [parent |-> last.parent, delivery |-> ndelivered]

\* C11 as stated: every execute_reply with status error that resolves to a cell
\* appends exactly one traceback insertion to the cell's output, whatever the
\* traceback list contains, and raises nothing; one with status ok appends none.
C11_ErrorReplyAppendsOneTraceback ==
    [][(last'.op = "execute_reply" /\ last'.index # None)
          => LET c == last'.index
             IN  /\ ~last'.raised
                 /\ Len(cells'[c].output) =
                        Len(cells[c].output)
                            + (IF last'.content.status = "error" THEN 1 ELSE 0)]_vars

\* C11 amended: an execute_reply with status error that resolves to a cell
\* appends one traceback insertion, the joined traceback without its ANSI control
\* sequences, when that text is not empty, and nothing when it is empty; one with
\* status ok appends nothing; neither raises.
C11_ErrorReplyAppendsNonEmptyTraceback ==
    [][(last'.op = "execute_reply" /\ last'.index # None)
          => LET c == last'.index
                 tb == TracebackText(last'.content.traceback)
             IN  /\ ~last'.raised
                 /\ cells'[c].output =
                        IF last'.content.status = "error" /\ tb # <<>>
                        THEN Append(cells[c].output, Insertion("text", tb, LastTag'))
                        ELSE cells[c].output]_vars

\* after a submit and nothing but an error reply the output is the traceback alone
C11_Witness ==
    /\ last.op = "execute_reply"
    /\ last.index # None
    /\ last.content.status = "error"
    /\ ndelivered = 1
    /\ cells[last.index].output = <<Insertion("text", <<"E", NL, "x">>, LastTag)>>

StreamEvent(name, text, tag) ==
    Insertion("html", <<"<span class=", name, ">">> \o escape(text) \o <<"</span>">>, tag)

\* C13 as stated: every stream message that resolves to a cell appends exactly
\* one insertion, carrying the channel name and the text, after those already in
\* the cell's output.
C13_EveryStreamAppendsOneEvent ==
    [][(last'.op = "stream" /\ last'.index # None)
          => cells'[last'.index].output =
                Append(cells[last'.index].output,
                       StreamEvent(last'.content.name, last'.content.text, LastTag'))]_vars

\* C13 amended: a stream message that resolves to a cell and whose text is not
\* empty appends exactly one insertion, carrying the channel name and the text,
\* after those already in the cell's output; one whose text is empty appends
\* nothing.  Consecutive streams are therefore shown one by one in delivery order.
C13_NonEmptyStreamAppendsOneEvent ==
    [][(last'.op = "stream" /\ last'.index # None)
          => cells'[last'.index].output =
                IF last'.content.text # <<>>
                THEN Append(cells[last'.index].output,
                            StreamEvent(last'.content.name, last'.content.text, LastTag'))
                ELSE cells[last'.index].output]_vars

\* the same stream message delivered twice in a row is shown twice
C13_Witness ==
    /\ last.op = "stream"
    /\ last.index # None
    /\ ndelivered = 2
    /\ cells[last.index].output =
           <<StreamEvent("stderr", <<"a", "<">>, [parent |-> last.parent, delivery |-> 1]),
             StreamEvent("stderr", <<"a", "<">>, [parent |-> last.parent, delivery |-> 2])>>

\* C14: right after a submit the cell's execution count is None, whatever it was
\* before, and it stays None until a message resolves to the cell.
C14_SubmitBlanksExecutionCount ==
    [][/\ last'.op = "execute_cell" => cells'[last'.index].execution_count = None
       /\ \A c \in CellIndexes :
              (cells[c].execution_count = None /\ ~(last'.op \in MsgTypes /\ last'.index = c))
              => cells'[c].execution_count = None]_vars

\* C15: after an execute_reply that resolved to a cell, the cell's execution count
\* is the reply's execution count, None when the reply has none, whether the
\* status is ok or error.
C15_ReplySetsExecutionCount ==
    [][(last'.op = "execute_reply" /\ last'.index # None)
          => cells'[last'.index].execution_count = last'.content.execution_count]_vars

\* the records of the code cells of the document loaded, in document order
CodeRecords == SelectSeq(notebook, LAMBDA ns : ns.cell_type = "code")

\* an error reply without a count, the first message delivered, has blanked the
\* prompt of a cell that the document gave the count 1
C15_Witness ==
    /\ last.op = "execute_reply"
    /\ last.index # None
    /\ last.content.status = "error"
    /\ last.content.execution_count = None
    /\ ndelivered = 1
    /\ CodeRecords[last.index].execution_count = 1
    /\ cells[last.index].execution_count = None

\* C16: an execute_result that resolves to a cell appends exactly one insertion,
\* the representation of highest priority in its payload: the text/html value
\* when the payload has one (also when it has text/plain too, and when it has
\* nothing else), else the text/plain value.
C16_ResultRendersByPriority ==
    [][(last'.op = "execute_result" /\ last'.index # None)
          => LET data == last'.content.data
                 before == cells[last'.index].output
                 after == cells'[last'.index].output
             IN  /\ Len(after) = Len(before) + 1
                 /\ SubSeq(after, 1, Len(before)) = before
                 /\ after[Len(after)] =
                        IF "text/html" \in Keys(data)
                        THEN Insertion("html", DictGet(data, "text/html", <<>>), LastTag')
                        ELSE Insertion("text", DictGet(data, "text/plain", <<>>), LastTag')]_vars

\* C17: an entry of the table, request p of cell c, is still there after a step,
\* for the same cell, and the cell's pending request is what it was, unless the
\* step is a submit on c or the handling of an execute_reply of p: no submit on
\* another cell, no other message, no unresolved message removes it.
C17_EntryLeavesOnlyBySubmitOrReply ==
    [][\A p \in DOMAIN execute_msg_ids :
          LET c == execute_msg_ids[p]
          IN  \/ last'.op = "execute_cell" /\ last'.index = c
              \/ last'.op = "execute_reply" /\ last'.parent = p
              \/ /\ p \in DOMAIN execute_msg_ids'
                 /\ execute_msg_ids'[p] = c
                 /\ cells'[c].execute_request_msg_id = cells[c].execute_request_msg_id]_vars

\* a cell was submitted while the request of another cell stays in the table
C17_Witness ==
    /\ last.op = "execute_cell"
    /\ ~last.raised
    /\ \E c \in CellIndexes :
           /\ c # last.index
           /\ EntriesOf(c) = {LastIssued(c)}
           /\ cells[c].execute_request_msg_id = LastIssued(c)

\* the cell whose editor is in row `row` of the grid (rows counted from 1)
CellOfRow(row) == Cardinality({k \in 1..row : layout[k].kind = "code"})

\* C18: once _remove_cell was called on the row of a cell's editor, no request id
\* in the table resolves to that cell.
C18_RemovalPrunesTable ==
    [][(/\ last'.op = "remove_cell"
        /\ last'.index < rowCount(layout)
        /\ layout[last'.index + 1].kind = "code")
          => \A p \in DOMAIN execute_msg_ids' :
                 execute_msg_ids'[p] # CellOfRow(last'.index + 1)]_vars

\* C19: with the handlers on another thread, a message whose parent is the
\* request the kernel client returned last for a cell, delivered while no later
\* call of execute_cell on that cell has yet popped the table, resolves to that cell.
C19_MessageOfAcceptedRequestResolves ==
    (/\ last.op \in MsgTypes
     /\ last.parent \in 1..Len(issued)
     /\ last.parent = LastIssued(issued[last.parent])
     /\ ~(submit.step \in {"pop", "clear"} /\ submit.index = issued[last.parent]))
        => last.index = issued[last.parent]

\* the rows of the grid that hold the source of a cell, top to bottom
CellRows == SelectSeq(layout, LAMBDA row : row.kind # "output")

\* C20: once a document is loaded the editor holds one cell per record of type
\* code, markdown or raw, in document order, each with the record's source as
\* one text (a list of lines concatenated).
C20_LoadCreatesOneCellPerRecord ==
    notebook # NoNotebook
        => LET records == SelectSeq(notebook, LAMBDA ns : ns.cell_type \in LoadedCellTypes)
           IN  CellRows = [i \in 1..Len(records) |->
                              Row(records[i].cell_type, normalize_source(records[i].source))]

\* C21: a display_data message that resolves to a cell and whose payload has an
\* image key, but neither image/png nor image/svg+xml, and has text/plain appends
\* the text/plain value to the cell's output.
C21_OtherImageFallsBackToPlain ==
    [][(/\ last'.op = "display_data"
        /\ last'.index # None
        /\ ImageData(last'.content.data) # <<>>
        /\ Keys(last'.content.data) \cap {"image/png", "image/svg+xml"} = {}
        /\ "text/plain" \in Keys(last'.content.data))
          => cells'[last'.index].output =
                Append(cells[last'.index].output,
                       Insertion("text", DictGet(last'.content.data, "text/plain", <<>>),
                                 LastTag'))]_vars

\* C22: a display_data message that resolves to a cell and whose payload has no
\* image key and no text/html key changes neither the cells nor the table.
C22_PlainOnlyDisplayDataIgnored ==
    [][(/\ last'.op = "display_data"
        /\ last'.index # None
        /\ ImageData(last'.content.data) = <<>>
        /\ "text/html" \notin Keys(last'.content.data))
          => /\ cells' = cells
             /\ execute_msg_ids' = execute_msg_ids]_vars

\* a display_data with only text/plain resolved to a cell whose output stays empty
C22_Witness ==
    /\ last.op = "display_data"
    /\ last.index # None
    /\ Keys(last.content.data) = {"text/plain"}
    /\ ndelivered = 1
    /\ cells[last.index].output = <<>>
    /\ ~cells[last.index].visible
    /\ EntriesOf(last.index) = {last.parent}

\* C23: a stream or execute_result message that resolves to a cell and carries
\* no execution count leaves the cell's execution count as it was.
C23_NoCounterKeepsExecutionCount ==
    [][(/\ last'.op \in {"stream", "execute_result"}
        /\ last'.index # None
        /\ last'.content.execution_count = None)
          => cells'[last'.index].execution_count = cells[last'.index].execution_count]_vars

\* the ids the table maps to cell c after the step
EntriesOfNext(c) == {i \in DOMAIN execute_msg_ids' : execute_msg_ids'[i] = c}

\* C24: a message that resolves to a cell, or a submit on a cell, leaves every
\* other cell (output, execution count, pending request id) and the table
\* entries of every other cell as they were.
C24_OtherCellsUnchanged ==
    [][\A b \in CellIndexes :
          (last'.op \in MsgTypes \cup {"execute_cell"} /\ last'.index # b)
          => /\ cells'[b] = cells[b]
             /\ EntriesOfNext(b) = EntriesOf(b)]_vars

\* two cells have requests outstanding; a message has just written to one of
\* them and the other, which holds output of its own, is as it was
C24_Witness ==
    /\ last.op \in MsgTypes
    /\ last.index # None
    /\ \E b \in CellIndexes :
           /\ b # last.index
           /\ EntriesOf(b) # {}
           /\ EntriesOf(last.index) # {}
           /\ cells[b].output # <<>>
           /\ \A k \in 1..Len(cells[b].output) : cells[b].output[k].delivery < ndelivered
           /\ \E k \in 1..Len(cells[last.index].output) :
                  cells[last.index].output[k].delivery = ndelivered

\* C25: a cell's output_content holds no payload received for an earlier request
\* of the cell: right after a submit that returned a new request id it is empty.
C25_OutputContentOfCurrentRequest ==
    [][(last'.op = "execute_cell" /\ ~last'.raised)
          => cells'[last'.index].output_content = <<>>]_vars

\* C29: every entry of the table maps a request id to a cell whose
\* execute_request_msg_id is that id, so distinct ids map to distinct cells.
C29_EntryIsCellsPendingRequest ==
    /\ \A p \in DOMAIN execute_msg_ids :
           /\ execute_msg_ids[p] \in CellIndexes
           /\ cells[execute_msg_ids[p]].execute_request_msg_id = p
    /\ \A p, q \in DOMAIN execute_msg_ids :
           execute_msg_ids[p] = execute_msg_ids[q] => p = q

\* a submit on one cell has raised while another cell is in the table under the
\* id of its own pending request
C29_Witness ==
    /\ last.op = "execute_cell"
    /\ last.raised
    /\ EntriesOf(last.index) = {}
    /\ \E d \in CellIndexes :
           /\ d # last.index
           /\ cells[d].execute_request_msg_id # None
           /\ EntriesOf(d) = {cells[d].execute_request_msg_id}

\* C30: every insertion in a cell's output was made by a message whose parent is
\* the id returned by the cell's most recent submit.
C30_OutputOfMostRecentRequest ==
    \A c \in CellIndexes :
        \A k \in 1..Len(cells[c].output) :
            cells[c].output[k].parent = LastIssued(c)

\* a cell submitted twice shows output of its second request
C30_Witness ==
    \E c \in CellIndexes :
        /\ Cardinality(IssuedTo(c)) = 2
        /\ cells[c].output # <<>>
        /\ cells[c].output[1].parent = LastIssued(c)

\* C26: the bytes returned since the cache was last rewound are the first bytes
\* of the base's content, the cache holds exactly the bytes read from the base so
\* far, and no assert of read has failed.
C26_RestartableReads ==
    /\ Len(returned) <= Len(base.content)
    /\ returned = SubSeq(base.content, 1, Len(returned))
    /\ cache.content = SubSeq(base.content, 1, base.pos)
    /\ last.op = "read" => ~last.raised

\* after a rewind one read took bytes from the cache and then from the base
C26_Witness ==
    /\ last.op = "read"
    /\ last.content.from_cache > 0
    /\ last.content.from_base > 0
    /\ Len(returned) > last.content.from_cache + last.content.from_base

\* ------------------------------------------------------------------ the preview model's fetches
InitPreview ==
    /\ NotebookIdle
    /\ last = Op("init", None, None, FALSE, NoContent)
    /\ CacheIdle
    /\ preview = PreviewModel
    /\ widget = WidgetIdle

\* what the model was before a call
Before(p) == [rowCount |-> p.rowCount, canFetchMore |-> p.canFetchMore]

SetPreviewStream ==
    \E stream \in PreviewStreams :
        /\ preview' = setPreviewStream(preview, stream)
        /\ last' = Op("setPreviewStream", None, None, FALSE, Before(preview))
        /\ UNCHANGED <<nbvars, base, cache, returned, widget>>

\* the view, or __resetPreview, fetches; nothing in fetchMore asks canFetchMore
FetchMore ==
    /\ preview' = fetchMore(preview)
    /\ last' = Op("fetchMore", None, None, FALSE, Before(preview))
    /\ UNCHANGED <<nbvars, base, cache, returned, widget>>

NextPreview ==
    \/ SetPreviewStream
    \/ FetchMore

SpecPreview == InitPreview /\ [][NextPreview]_vars

\* C27: the row count is the number of stored rows and the column count the
\* length of the longest of them; a fetchMore adds at most 20 rows to a model
\* without rows and at most 5 otherwise, it leaves canFetchMore False when the
\* iterator gave fewer rows than asked (it was exhausted or it raised), and it
\* never turns canFetchMore on again.
C27_PreviewCounts ==
    /\ preview.rowCount = Len(preview.rows)
    /\ preview.colCount = Longest(preview.rows)
    /\ last.op = "fetchMore" =>
        LET added == preview.rowCount - last.content.rowCount
            asked == IF last.content.rowCount = 0 THEN 20 ELSE 5
        IN  /\ added >= 0
            /\ added <= asked
            /\ added < asked => ~preview.canFetchMore
            /\ ~last.content.canFetchMore => ~preview.canFetchMore
    /\ last.op = "setPreviewStream" => preview.rowCount = 0

\* a second fetch brought five rows, one of them wider than all before
C27_Witness ==
    /\ last.op = "fetchMore"
    /\ last.content.rowCount = 20
    /\ preview.rowCount = 25
    /\ preview.colCount = 3
    /\ preview.canFetchMore

\* ------------------------------------------------------------------ the import widget's column types
InitColumns ==
    /\ NotebookIdle
    /\ last = Op("init", None, None, FALSE, NoContent)
    /\ CacheIdle
    /\ preview = PreviewModel
    /\ widget = WidgetIdle

\* setSampleContents(stream)
SetSampleContents ==
    \E stream \in SampleStreams :
        LET r == resetPreview([widget EXCEPT !.sample = TRUE], preview, stream)
        IN  /\ widget' = r.widget
            /\ preview' = r.preview
            /\ last' = Op("setSampleContents", None, None, FALSE, NoContent)
            /\ UNCHANGED <<nbvars, base, cache, returned>>

\* the user changes the dialect or the encoding: the timer is started
OptionsChanged ==
    /\ widget' = [widget EXCEPT !.timer = TRUE]
    /\ last' = Op("optionsChanged", None, None, FALSE, NoContent)
    /\ UNCHANGED <<nbvars, base, cache, returned, preview>>

\* the timer fires
TimerTimeout ==
    /\ widget.timer
    /\ \E stream \in SampleStreams :
           LET r == resetPreview(widget, preview, stream)
           IN  /\ widget' = r.widget
               /\ preview' = r.preview
    /\ last' = Op("timeout", None, None, FALSE, NoContent)
    /\ UNCHANGED <<nbvars, base, cache, returned>>

\* the streams a call may find the sample parsing to: it parses the sample
\* only when an options change is pending
StreamsIfPending == IF widget.timer THEN SampleStreams ELSE {<<>>}

SetColumnTypes ==
    \E types \in TypeDicts, stream \in StreamsIfPending :
        LET r == setColumnTypes(widget, preview, types, stream)
        IN  /\ widget' = r.widget
            /\ preview' = r.preview
            /\ last' = Op("setColumnTypes", None, None, FALSE, NoContent)
            /\ UNCHANGED <<nbvars, base, cache, returned>>

\* the view is scrolled and asks the model for more
ViewFetchMore ==
    /\ widget.model
    /\ preview.canFetchMore
    /\ preview' = fetchMore(preview)
    /\ last' = Op("fetchMore", None, None, FALSE, NoContent)
    /\ UNCHANGED <<nbvars, base, cache, returned, widget>>

\* setColumnTypeRanges(columnTypeRanges())
RoundTrip ==
    \E stream \in StreamsIfPending :
        LET ranges == columnTypeRanges(widget, preview)
            r == setColumnTypeRanges(widget, preview, ranges, stream)
        IN  /\ widget' = r.widget
            /\ preview' = r.preview
            /\ last' = Op("round_trip", None, None, FALSE,
                           [before |-> columnTypes(widget, preview),
                            ranges |-> ranges, pending |-> widget.timer])
            /\ UNCHANGED <<nbvars, base, cache, returned>>

NextColumns ==
    \/ SetSampleContents
    \/ OptionsChanged
    \/ TimerTimeout
    \/ SetColumnTypes
    \/ ViewFetchMore
    \/ RoundTrip

SpecColumns == InitColumns /\ [][NextColumns]_vars

\* the ranges are in ascending order, every column of the preview lies in
\* exactly one of them, and each is paired with the type of all its columns
RangesPartition ==
    LET ranges == columnTypeRanges(widget, preview)
        types == columnTypes(widget, preview)
        count == IF widget.model THEN preview.colCount ELSE 0
        TypeOf(i) == IF i \in DOMAIN types THEN types[i] ELSE "Auto"
    IN  /\ \A g \in 1..Len(ranges) : ranges[g].range.start < ranges[g].range.stop
        /\ \A g \in 1..(Len(ranges) - 1) :
               ranges[g].range.stop <= ranges[g + 1].range.start
        /\ \A i \in 0..(count - 1) :
               Cardinality({g \in 1..Len(ranges) :
                   /\ ranges[g].range.start <= i
                   /\ i < ranges[g].range.stop}) = 1
        /\ \A g \in 1..Len(ranges) :
               \A i \in ranges[g].range.start..(ranges[g].range.stop - 1) :
                   /\ i < count
                   /\ ranges[g].coltype = TypeOf(i)

\* C28 as stated: the ranges partition the columns, and
\* setColumnTypeRanges(columnTypeRanges()) leaves columnTypes() as it was.
C28_RangesRoundTrip ==
    /\ RangesPartition
    /\ last.op = "round_trip" =>
           columnTypes(widget, preview) = last.content.before

\* C28: the ranges partition the columns; setColumnTypeRanges(columnTypeRanges())
\* leaves columnTypes() as it was when no options change is pending, and with
\* one pending it keeps the types of the columns the reset preview still has
\* and drops the others.
C28_RangesRoundTripNoPendingReset ==
    /\ RangesPartition
    /\ last.op = "round_trip" =>
        LET before == last.content.before
            after == columnTypes(widget, preview)
        IN  /\ ~last.content.pending => after = before
            /\ after = [i \in {i \in DOMAIN before : i < preview.colCount} |->
                            before[i]]

\* with no options change pending, ranges of Auto and of other types went
\* through the round trip
C28_Witness ==
    /\ last.op = "round_trip"
    /\ ~last.content.pending
    /\ Len(last.content.ranges) >= 2
    /\ \E g \in 1..Len(last.content.ranges) :
           /\ last.content.ranges[g].coltype = "Auto"
           /\ last.content.ranges[g].range.stop - last.content.ranges[g].range.start >= 1
    /\ \E g \in 1..Len(last.content.ranges) :
           /\ last.content.ranges[g].coltype = "Numeric"
           /\ last.content.ranges[g].range.stop - last.content.ranges[g].range.start = 2
    /\ columnTypes(widget, preview) # EmptyDict

====
